---- MODULE Spec2Model ----
(***************************************************************************)
(* VideoStitchMaster: the combination generator (server/routes.ts), the    *)
(* single-worker processing queue (server/queue.ts) and the compositor     *)
(* adapter (server/videoProcessor.ts), as one state machine.               *)
(*                                                                         *)
(* One action is one turn of the Node.js event loop: a request handler, a  *)
(* timer callback or a child-process event, run up to its next real        *)
(* suspension, together with the promise continuations (microtasks) that   *)
(* it makes runnable.                                                      *)
(*                                                                         *)
(* The repository holds two revisions of the generate route that the       *)
(* claims refer to: src/server/routes.ts:75-152 (rev "routes") and         *)
(* src/unnamed/part_005:100-206 (rev "part_005").  routesRev selects one   *)
(* of them for a run; everything else is common to both.                   *)
(***************************************************************************)
EXTENDS Integers, Sequences, FiniteSets, TLC

\* ---------------------------------------------------------------- bounds
\* Spec: the sizes the three pools may grow to, the size of the combination
\* store, and how many uploaded files the environment may remove.
MaxHooks == 1
MaxStories == 2
MaxCtas == 1
MaxCombinations == 2
MaxRemovals == 1
\* QueueSpec: the number of tasks added to the queue.
QueueMaxJobs == 3
\* FairQueueSpec: the number of tasks added to the queue.
FairMaxJobs == 2
\* GenSpec: the size of each pool and of the combination store.
GenMaxPool == 2
GenMaxCombinations == 8
\* SegSpec: the size of each pool and the number of tasks.
SegMaxPool == 1
SegMaxJobs == 1

\* ------------------------------------------------------------- constants
Pools == {"hook", "story", "cta"}
Revs == {"routes", "part_005"}

\* videoProcessor.ts:170 imports fs from 'node:fs/promises'; that module
\* exports access, stat, constants, ... and has no member named promises,
\* so the expression fs.promises.stat of videoProcessor.ts:268 reads a
\* property of undefined and throws a TypeError.
FsPromisesHasPromises == FALSE

VARIABLES
    routesRev,      \* which revision of the generate route runs
    segments,       \* routes.ts:43    const segments: VideoSegment[]
    inputOk,        \* ids of the segments whose uploaded file is present and readable
    combinations,   \* routes.ts:44    const combinations: VideoCombination[]
    queue,          \* queue.ts:5      private queue: QueueTask[] (a task is named by its combination id)
    processing,     \* queue.ts:6      private processing = false
    workerPc,       \* where ProcessingQueue.process is: "idle", "task" (await task()), "delay" (the 1 s timer)
    cur,            \* the task the worker loop awaits (0: none)
    job,            \* per combination: the state of its task and of its compositor subprocess
    response,       \* the HTTP response of the last step, if it produced one
    server,         \* index.ts:94-158 the process: where main is, its retries, its exit code
    client          \* part_004:80-133 the Home page: the combinations query and its state

vars == <<routesRev, segments, inputOk, combinations, queue, processing,
          workerPc, cur, job, response, server, client>>

\* ---------------------------------------------------------------- helpers
\* route: the handler that answered ("none": the step was no request)
NoResponse == [route |-> "none", status |-> 0, body |-> <<>>]

\* index.ts:97  const MAX_RETRIES = 3
MAX_RETRIES == 3

\* index.ts:94-98  main begins: no server yet, retries = 0.  pc is where main
\* is: "starting" (await startServer()), "waiting" (the 2 s delay after
\* EADDRINUSE), "listening" (the loop was left by break), "cleanup" (the
\* uncaughtException handler awaits cleanup()), "exited", "returned" (the
\* loop ended by its condition).  attempts counts the calls of startServer;
\* exit is <<>> while the process runs and <<code>> after process.exit(code).
Starting == [pc |-> "starting", retries |-> 0, attempts |-> 0, exit |-> <<>>]

\* index.ts:141-142  the first startServer() resolved and the loop was left
Listening == [pc |-> "listening", retries |-> 0, attempts |-> 1, exit |-> <<>>]

\* index.ts:84-86  requests, timers and subprocess events are handled while
\* the server listens; none of them touches the state of main
ServerStays == server.pc = "listening" /\ server' = server

\* part_004:95  the refetch interval while a record is processing, in ms
REFETCH_MS == 2000

\* No page is open: mounted is whether the Home component is mounted, data
\* the query's data (part_004:94 query.state.data, <<>> while undefined, as
\* part_004:99), stale whether the query was invalidated and not yet fetched.
NoClient == [mounted |-> FALSE, data |-> <<>>, stale |-> FALSE]

\* part_004:90-97  the page was opened: the query fetches on mount
Mounted == [mounted |-> TRUE, data |-> <<>>, stale |-> TRUE]

\* Mutant: the query has no refetch interval.
RefetchInterval_Off(data) == 0

\* part_004:93-96  refetchInterval (0: false, no interval)
RefetchInterval(data) ==
    IF \E i \in 1..Len(data) : data[i].status = "processing" THEN REFETCH_MS ELSE 0

\* part_004:117-133  generateMutation settled: onSuccess invalidates the
\* combinations query, onError only shows a toast
GenerateSettled(c, status) ==
    IF c.mounted /\ status = 200 THEN [c EXCEPT !.stale = TRUE] ELSE c

\* every step but the page's own requests leaves the page as it is
ClientStays == client' = client

\* routes.ts:76-78  segments.filter(s => s.type === t)
Filter(segs, t) == SelectSeq(segs, LAMBDA s : s.type = t)

\* Mutant: the record holds the story's id as its hook and the hook's id as
\* its story.
NewCombination_Swapped(rev, id, hook, story, cta) ==
    [id |-> id, hook |-> story.id, story |-> hook.id, cta |-> cta.id,
     status |-> "processing",
     downloadUrl |-> IF rev = "part_005" THEN "url" ELSE "none"]

\* Mutant: the identity of a record is derived from its three segments
\* instead of being fresh.
NewCombination_IdFromTriple(rev, id, hook, story, cta) ==
    [id |-> <<hook.id, story.id, cta.id>>, hook |-> hook.id, story |-> story.id, cta |-> cta.id,
     status |-> "processing",
     downloadUrl |-> IF rev = "part_005" THEN "url" ELSE "none"]

\* routes.ts:89-95 / part_005:114-122: the record a generation creates.
\* randomUUID() is modelled by the next free index of the store; the output
\* locator is "none" (absent) or "url" (/combinations/<id>.mp4).
NewCombination(rev, id, hook, story, cta) ==
    [id |-> id, hook |-> hook.id, story |-> story.id, cta |-> cta.id,
     status |-> "processing",
     downloadUrl |-> IF rev = "part_005" THEN "url" ELSE "none"]

\* The state of a task that was added and not yet started.
NewJob ==
    [pc |-> "queued",       \* queued, access (await fs.access), spawned (await the promise), done
     proc |-> "none",       \* none, running, killed (SIGKILL sent, not yet exited), failed (spawn failed), exited
     promise |-> "none",    \* the promise of videoProcessor.ts:196: none, pending, resolved, rejected
     timer |-> FALSE,       \* the 5-minute timer of videoProcessor.ts:255 is armed
     out |-> "missing",     \* the file at outputPath: missing, empty, nonempty
     exit |-> "none",       \* the code of the close event: none, zero, nonzero
     cause |-> "none",      \* what ended the task: input, error, timeout, close
     started |-> 0,         \* how many times the task was invoked
     writes |-> 0,          \* how many times the task assigned combination.status
     inputs |-> <<>>]       \* the inputFiles the task passed to processVideoCombination

\* The part of the state the queue and the tasks work on (the segment store
\* is only read by them).
Heap == [combinations |-> combinations, queue |-> queue, processing |-> processing,
         workerPc |-> workerPc, cur |-> cur, job |-> job, segments |-> segments]

Commit(S) ==
    /\ combinations' = S.combinations
    /\ queue' = S.queue
    /\ processing' = S.processing
    /\ workerPc' = S.workerPc
    /\ cur' = S.cur
    /\ job' = S.job

\* ------------------------------------------------------------- the queue
\* Mutant: a task that failed ends the loop (its error is not contained), so
\* the flag stays set and nothing is popped any more.
TaskSettled_StallOnError(S, j) ==
    IF S.workerPc = "task" /\ S.cur = j /\ S.combinations[j].status # "error"
    THEN [S EXCEPT !.workerPc = "delay"]
    ELSE S

\* queue.ts:25-28  the continuation of `await task()`: the loop that awaits
\* task j goes on to the 1-second delay.
TaskSettled(S, j) ==
    IF S.workerPc = "task" /\ S.cur = j
    THEN [S EXCEPT !.workerPc = "delay"]
    ELSE S

\* Mutant: the catch block writes to the record the loops created last (the
\* closure shares one binding) instead of the task's own record.
JobCatch_Last(S, rev, j, why) ==
    TaskSettled(
      [S EXCEPT !.combinations[Len(S.combinations)].status = "error",
                !.job[j].pc = "done",
                !.job[j].cause = why,
                !.job[j].writes = @ + 1,
                !.job[j].out = IF rev = "routes" THEN "missing" ELSE @],
      j)

\* Mutant: a task that failed is put back on the queue once (a retry).
JobCatch_Retry(S, rev, j, why) ==
    TaskSettled(
      [S EXCEPT !.combinations[j].status = "error",
                !.job[j].pc = "done",
                !.job[j].cause = why,
                !.job[j].writes = @ + 1,
                !.job[j].out = IF rev = "routes" THEN "missing" ELSE @,
                !.queue = IF S.job[j].started < 2 THEN Append(@, j) ELSE @],
      j)

\* Mutant: the catch block looks its record up by the three segment
\* references, and so writes to every record of the same triple.
JobCatch_ByTriple(S, rev, j, why) ==
    TaskSettled(
      [S EXCEPT !.combinations =
                    [i \in 1..Len(@) |->
                       IF <<@[i].hook, @[i].story, @[i].cta>>
                            = <<@[j].hook, @[j].story, @[j].cta>>
                       THEN [@[i] EXCEPT !.status = "error"] ELSE @[i]],
                !.job[j].pc = "done",
                !.job[j].cause = why,
                !.job[j].writes = @ + 1,
                !.job[j].out = IF rev = "routes" THEN "missing" ELSE @],
      j)

\* routes.ts:132-143 / part_005:185-197  the catch block of the task:
\* status error, then the cleanup of the partial output.  In rev routes the
\* file is removed when it exists; in rev part_005 fs is node:fs and
\* fs.unlink(outputPath) is called without a callback, which throws before
\* anything is removed and is caught by the inner try.
JobCatch(S, rev, j, why) ==
    TaskSettled(
      [S EXCEPT !.combinations[j].status = "error",
                !.job[j].pc = "done",
                !.job[j].cause = why,
                !.job[j].writes = @ + 1,
                !.job[j].out = IF rev = "routes" THEN "missing" ELSE @],
      j)

\* routes.ts:124-131 / part_005:176-184  after processVideoCombination
\* resolved: verify the output, then status ready.  (The awaits on this
\* path, videoProcessor.ts:268, 275 and part_005:177, are taken in the same
\* step: CloseOutcome never resolves, so no state is ever suspended there.)
JobThen(S, rev, j, why) ==
    LET o == S.job[j].out
        bad == IF rev = "routes" THEN o = "missing" ELSE o # "nonempty"
    IN IF bad THEN JobCatch(S, rev, j, why)
       ELSE TaskSettled(
              [S EXCEPT !.combinations[j].status = "ready",
                        !.combinations[j].downloadUrl = "url",
                        !.job[j].pc = "done",
                        !.job[j].cause = why,
                        !.job[j].writes = @ + 1],
              j)

\* routes.ts:66  file: req.file.path, the upload's own file (multer names
\* it by a fresh UUID; modelled by the segment's index).
SegmentFile(seg) == <<"uploads", seg.id>>

\* routes.ts:106-108  segments.find(s => s.id === id)
FindSegment(segs, id) ==
    segs[CHOOSE i \in 1..Len(segs) :
            segs[i].id = id /\ \A k \in 1..(i - 1) : segs[k].id # id]

\* Mutant: the task takes, for each pool, the segment uploaded last to it
\* at the time it runs, not the one its record references.
TaskStart_LatestOfPool(S, rev, ok, j) ==
    LET c == S.combinations[j]
        S1 == [S EXCEPT !.job[j].started = @ + 1]
        last(t) == LET f == SelectSeq(S.segments, LAMBDA x : x.type = t) IN f[Len(f)]
    IN IF rev = "routes" /\ ~({c.hook, c.story, c.cta} \subseteq ok)
       THEN JobCatch(S1, rev, j, "input")
       ELSE [S1 EXCEPT !.job[j].pc = "access",
                       !.job[j].inputs = <<SegmentFile(last("hook")),
                                           SegmentFile(last("story")),
                                           SegmentFile(last("cta"))>>]

\* routes.ts:100-122 / part_005:127-174  the task, from its invocation to
\* its first suspension.  It looks up its three segments by identity; rev
\* routes checks their files with fs.existsSync and fails at once when one
\* is missing; otherwise the task calls processVideoCombination with the
\* three files, hook, story, cta, and suspends there at `await fs.access`.
TaskStart(S, rev, ok, j) ==
    LET c == S.combinations[j]
        S1 == [S EXCEPT !.job[j].started = @ + 1]
    IN IF rev = "routes" /\ ~({c.hook, c.story, c.cta} \subseteq ok)
       THEN JobCatch(S1, rev, j, "input")
       ELSE [S1 EXCEPT !.job[j].pc = "access",
                       !.job[j].inputs = <<SegmentFile(FindSegment(S.segments, c.hook)),
                                           SegmentFile(FindSegment(S.segments, c.story)),
                                           SegmentFile(FindSegment(S.segments, c.cta))>>]

\* Mutant: the task is taken from the tail (pop instead of shift).
Shift_Pop(q) == [head |-> q[Len(q)], rest |-> SubSeq(q, 1, Len(q) - 1)]

\* queue.ts:22  this.queue.shift()
Shift(q) == [head |-> Head(q), rest |-> Tail(q)]

\* Mutant: the task is called and not awaited (task() for await task()).
LoopTurn_NoAwait(S, rev, ok) ==
    LET sh == Shift(S.queue)
    IN [TaskStart([S EXCEPT !.queue = sh.rest, !.workerPc = "task", !.cur = sh.head],
                  rev, ok, sh.head)
          EXCEPT !.workerPc = "delay"]

\* queue.ts:21-25  one turn of the while loop: pop the head, call it, await it.
LoopTurn(S, rev, ok) ==
    LET sh == Shift(S.queue)
    IN TaskStart([S EXCEPT !.queue = sh.rest, !.workerPc = "task", !.cur = sh.head],
                 rev, ok, sh.head)

\* queue.ts:15-25  process(), from its call to its first suspension.
Process(S, rev, ok) ==
    IF S.processing \/ Len(S.queue) = 0 THEN S
    ELSE LoopTurn([S EXCEPT !.processing = TRUE], rev, ok)

\* Mutant: add starts the loop with the task when the worker is idle and
\* drops a task that arrives while the worker is busy.
Add_DropWhenBusy(S, rev, ok, j) ==
    IF ~S.processing THEN Process([S EXCEPT !.queue = Append(@, j)], rev, ok) ELSE S

\* Mutant: add starts a worker loop whether or not one is draining (the
\* test of the flag is dropped, in add and at the head of process).
Add_StartAlways(S, rev, ok, j) ==
    LoopTurn([S EXCEPT !.queue = Append(@, j), !.processing = TRUE], rev, ok)

\* Mutant: add puts the task at the head of the queue (unshift for push).
Add_Front(S, rev, ok, j) ==
    LET S1 == [S EXCEPT !.queue = <<j>> \o @]
    IN IF ~S1.processing THEN Process(S1, rev, ok) ELSE S1

\* queue.ts:8-13  add(task)
Add(S, rev, ok, j) ==
    LET S1 == [S EXCEPT !.queue = Append(@, j)]
    IN IF ~S1.processing THEN Process(S1, rev, ok) ELSE S1

\* ---------------------------------------------------- the generate route
\* Mutant: the new record is put at the front of the store (unshift for
\* push).
CreateOne_Unshift(S, rev, ok, hook, story, cta) ==
    LET id == Len(S.combinations) + 1
        S1 == [S EXCEPT !.combinations = <<NewCombination(rev, id, hook, story, cta)>> \o @,
                        !.job = Append(@, NewJob)]
    IN Add(S1, rev, ok, id)

\* routes.ts:89-100  the body of the innermost loop: create the record,
\* push it, add its task.
CreateOne(S, rev, ok, hook, story, cta) ==
    LET id == Len(S.combinations) + 1
        S1 == [S EXCEPT !.combinations = Append(@, NewCombination(rev, id, hook, story, cta)),
                        !.job = Append(@, NewJob)]
    IN Add(S1, rev, ok, id)

\* routes.ts:88  for (const cta of ctas)
RECURSIVE ForCtas(_, _, _, _, _, _)
ForCtas(S, rev, ok, hook, story, ctas) ==
    IF ctas = <<>> THEN S
    ELSE ForCtas(CreateOne(S, rev, ok, hook, story, Head(ctas)), rev, ok, hook, story, Tail(ctas))

\* routes.ts:87  for (const story of stories)
RECURSIVE ForStories(_, _, _, _, _, _)
ForStories(S, rev, ok, hook, stories, ctas) ==
    IF stories = <<>> THEN S
    ELSE ForStories(ForCtas(S, rev, ok, hook, Head(stories), ctas), rev, ok, hook, Tail(stories), ctas)

\* Mutant: the loops are nested with the stories outermost.
RECURSIVE HooksInner(_, _, _, _, _, _)
HooksInner(S, rev, ok, hooks, story, ctas) ==
    IF hooks = <<>> THEN S
    ELSE HooksInner(ForCtas(S, rev, ok, Head(hooks), story, ctas), rev, ok, Tail(hooks), story, ctas)

RECURSIVE ForHooks_StoriesOuter(_, _, _, _, _, _)
ForHooks_StoriesOuter(S, rev, ok, hooks, stories, ctas) ==
    IF stories = <<>> THEN S
    ELSE ForHooks_StoriesOuter(HooksInner(S, rev, ok, hooks, Head(stories), ctas),
                               rev, ok, hooks, Tail(stories), ctas)

\* routes.ts:86  for (const hook of hooks)
RECURSIVE ForHooks(_, _, _, _, _, _)
ForHooks(S, rev, ok, hooks, stories, ctas) ==
    IF hooks = <<>> THEN S
    ELSE ForHooks(ForStories(S, rev, ok, Head(hooks), stories, ctas), rev, ok, Tail(hooks), stories, ctas)

\* Mutant: the request is rejected only when all three pools are empty.
MissingInputs_AllEmpty(segs) ==
    /\ Len(Filter(segs, "hook")) = 0
    /\ Len(Filter(segs, "story")) = 0
    /\ Len(Filter(segs, "cta")) = 0

\* routes.ts:80  any pool empty
MissingInputs(segs) ==
    \/ Len(Filter(segs, "hook")) = 0
    \/ Len(Filter(segs, "story")) = 0
    \/ Len(Filter(segs, "cta")) = 0

ProductSize(segs) ==
    Len(Filter(segs, "hook")) * Len(Filter(segs, "story")) * Len(Filter(segs, "cta"))

\* Mutant: the handler suspends after the records of the first hook; the
\* turn ends there and answers with what it has.
GenerateUpTo_SuspendAfterFirstHook(maxc) ==
    /\ ServerStays
    /\ IF MissingInputs(segments)
       THEN /\ response' = [route |-> "generate", status |-> 400, body |-> "Missing required segments"]
            /\ UNCHANGED <<routesRev, segments, inputOk, combinations, queue,
                           processing, workerPc, cur, job>>
       ELSE /\ Len(combinations) + ProductSize(segments) <= maxc
            /\ LET S == ForHooks(Heap, routesRev, inputOk, <<Head(Filter(segments, "hook"))>>,
                                 Filter(segments, "story"), Filter(segments, "cta"))
               IN /\ Commit(S)
                  /\ response' = [route |-> "generate", status |-> 200, body |-> S.combinations]
            /\ UNCHANGED <<routesRev, segments, inputOk>>
    /\ client' = GenerateSettled(client, response'.status)

\* routes.ts:75-152  POST /api/combinations/generate (maxc: the model's cap
\* on the size of the combination store)
GenerateUpTo(maxc) ==
    /\ ServerStays
    /\ IF MissingInputs(segments)
       THEN /\ response' = [route |-> "generate", status |-> 400, body |-> "Missing required segments"]
            /\ UNCHANGED <<routesRev, segments, inputOk, combinations, queue,
                           processing, workerPc, cur, job>>
       ELSE /\ Len(combinations) + ProductSize(segments) <= maxc
            /\ LET S == ForHooks(Heap, routesRev, inputOk, Filter(segments, "hook"),
                                 Filter(segments, "story"), Filter(segments, "cta"))
               IN /\ Commit(S)
                  /\ response' = [route |-> "generate", status |-> 200, body |-> S.combinations]
            /\ UNCHANGED <<routesRev, segments, inputOk>>
    /\ client' = GenerateSettled(client, response'.status)

Generate == GenerateUpTo(MaxCombinations)

\* Mutant: the list is answered newest first.
ListCombinations_NewestFirst ==
    /\ ServerStays
    /\ ClientStays
    /\ response' = [route |-> "list", status |-> 200,
                    body |-> [i \in 1..Len(combinations) |->
                                combinations[Len(combinations) + 1 - i]]]
    /\ UNCHANGED <<routesRev, segments, inputOk, combinations, queue,
                   processing, workerPc, cur, job>>

\* routes.ts:154-156  GET /api/combinations
ListCombinations ==
    /\ ServerStays
    /\ ClientStays
    /\ response' = [route |-> "list", status |-> 200, body |-> combinations]
    /\ UNCHANGED <<routesRev, segments, inputOk, combinations, queue,
                   processing, workerPc, cur, job>>

\* Mutant: the new segment is put at the front of the store.
UploadUpTo_Unshift(cap, t, hasFile, hasType, thumbOk) ==
    /\ ServerStays
    /\ ClientStays
    /\ UNCHANGED <<routesRev, combinations, queue, processing, workerPc, cur, job>>
    /\ IF ~hasFile \/ ~hasType
       THEN /\ response' = [route |-> "upload", status |-> 400, body |-> "Missing file or type"]
            /\ UNCHANGED <<segments, inputOk>>
       ELSE IF ~thumbOk
       THEN /\ response' = [route |-> "upload", status |-> 500, body |-> "Failed to process video"]
            /\ UNCHANGED <<segments, inputOk>>
       ELSE /\ Len(Filter(segments, t)) < cap
            /\ LET seg == [id |-> Len(segments) + 1, type |-> t]
               IN /\ segments' = <<seg>> \o segments
                  /\ inputOk' = inputOk \cup {seg.id}
                  /\ response' = [route |-> "upload", status |-> 200, body |-> seg]

\* routes.ts:49-73  POST /api/videos/upload, at the completion of
\* generateThumbnail.  hasFile, hasType: the request carries the file and
\* the pool type; thumbOk: ffmpeg wrote the thumbnail (exit code 0); cap:
\* the model's cap on the size of pool t.
UploadUpTo(cap, t, hasFile, hasType, thumbOk) ==
    /\ ServerStays
    /\ ClientStays
    /\ UNCHANGED <<routesRev, combinations, queue, processing, workerPc, cur, job>>
    /\ IF ~hasFile \/ ~hasType
       THEN /\ response' = [route |-> "upload", status |-> 400, body |-> "Missing file or type"]
            /\ UNCHANGED <<segments, inputOk>>
       ELSE IF ~thumbOk
       THEN /\ response' = [route |-> "upload", status |-> 500, body |-> "Failed to process video"]
            /\ UNCHANGED <<segments, inputOk>>
       ELSE /\ Len(Filter(segments, t)) < cap
            /\ LET seg == [id |-> Len(segments) + 1, type |-> t]
               IN /\ segments' = Append(segments, seg)
                  /\ inputOk' = inputOk \cup {seg.id}
                  /\ response' = [route |-> "upload", status |-> 200, body |-> seg]

PoolCap(t) == CASE t = "hook" -> MaxHooks [] t = "story" -> MaxStories [] OTHER -> MaxCtas

Upload(t, hasFile, hasType, thumbOk) ==
    UploadUpTo(PoolCap(t), t, hasFile, hasType, thumbOk)

\* The environment: an uploaded file is removed or made unreadable.
RemoveInput(s) ==
    /\ ServerStays
    /\ ClientStays
    /\ s \in inputOk
    /\ Cardinality({x \in 1..Len(segments) : x \notin inputOk}) < MaxRemovals
    /\ inputOk' = inputOk \ {s}
    /\ response' = NoResponse
    /\ UNCHANGED <<routesRev, segments, combinations, queue, processing, workerPc, cur, job>>

\* ------------------------------------------------ processVideoCombination
\* Mutant: the close handler resolves without looking at the exit code.
CloseOutcome_AnyCode(code, out) == "resolve"

\* videoProcessor.ts:261-287  what the close handler does to the promise.
CloseOutcome(code, out) ==
    IF code = "zero"
    THEN IF ~FsPromisesHasPromises THEN "reject"     \* :268 throws, :278-280 reject
         ELSE IF out = "missing" THEN "reject"       \* stat throws ENOENT
         ELSE IF out = "empty" THEN "reject"         \* :269-271
         ELSE "resolve"                              \* :273-276
    ELSE "reject"                                    \* :283-285

\* Mutant: the completion is not guarded, every event runs the task's
\* continuation again.
Settle_EveryEvent(S, rev, j, how, why) ==
    IF how = "resolve"
    THEN JobThen([S EXCEPT !.job[j].promise = "resolved"], rev, j, why)
    ELSE JobCatch([S EXCEPT !.job[j].promise = "rejected"], rev, j, why)

\* Mutant: the close handler completes the task whether or not the promise
\* is settled already.
Settle_CloseAlways(S, rev, j, how, why) ==
    IF S.job[j].promise # "pending" /\ why # "close" THEN S
    ELSE IF how = "resolve"
         THEN JobThen([S EXCEPT !.job[j].promise = "resolved"], rev, j, why)
         ELSE JobCatch([S EXCEPT !.job[j].promise = "rejected"], rev, j, why)

\* A promise settles once: resolve and reject on a settled promise do nothing.
\* why: the event that settles it.
Settle(S, rev, j, how, why) ==
    IF S.job[j].promise # "pending" THEN S
    ELSE IF how = "resolve"
         THEN JobThen([S EXCEPT !.job[j].promise = "resolved"], rev, j, why)
         ELSE JobCatch([S EXCEPT !.job[j].promise = "rejected"], rev, j, why)

\* Mutant: the input check is skipped, ffmpeg is spawned whatever the
\* state of the input files.
AccessDone_NoCheck(j) ==
    /\ ServerStays
    /\ ClientStays
    /\ j \in 1..Len(combinations)
    /\ job[j].pc = "access"
    /\ Commit([Heap EXCEPT !.job[j].pc = "spawned",
                            !.job[j].proc = "running",
                            !.job[j].promise = "pending",
                            !.job[j].timer = TRUE])
    /\ response' = NoResponse
    /\ UNCHANGED <<routesRev, segments, inputOk>>

\* videoProcessor.ts:180-220  the input check completes: a missing or
\* unreadable input throws (caught by the task), otherwise ffmpeg is spawned
\* and the timer armed.
AccessDone(j) ==
    /\ ServerStays
    /\ ClientStays
    /\ j \in 1..Len(combinations)
    /\ job[j].pc = "access"
    /\ LET c == combinations[j]
       IN IF {c.hook, c.story, c.cta} \subseteq inputOk
          THEN Commit([Heap EXCEPT !.job[j].pc = "spawned",
                                   !.job[j].proc = "running",
                                   !.job[j].promise = "pending",
                                   !.job[j].timer = TRUE])
          ELSE Commit(JobCatch(Heap, routesRev, j, "input"))
    /\ response' = NoResponse
    /\ UNCHANGED <<routesRev, segments, inputOk>>

\* The compositor writes its output: ffmpeg -y creates the file, then fills it.
Write(j) ==
    /\ ServerStays
    /\ ClientStays
    /\ j \in 1..Len(combinations)
    /\ job[j].proc = "running"
    /\ job[j].out # "nonempty"
    /\ job' = [job EXCEPT ![j].out = IF @ = "missing" THEN "empty" ELSE "nonempty"]
    /\ response' = NoResponse
    /\ UNCHANGED <<routesRev, segments, inputOk, combinations, queue, processing, workerPc, cur>>

\* videoProcessor.ts:248-252  the 'error' event: the process could not be
\* spawned.  kill() on it has no effect; the promise is rejected.
ErrorEvent(j) ==
    /\ ServerStays
    /\ ClientStays
    /\ j \in 1..Len(combinations)
    /\ job[j].proc = "running"
    /\ job[j].out = "missing"
    /\ Commit(Settle([Heap EXCEPT !.job[j].proc = "failed"], routesRev, j, "reject", "error"))
    /\ response' = NoResponse
    /\ UNCHANGED <<routesRev, segments, inputOk>>

\* Mutant: the timer callback rejects and leaves the subprocess running.
Timeout_NoKill(j) ==
    /\ ServerStays
    /\ ClientStays
    /\ j \in 1..Len(combinations)
    /\ job[j].timer
    /\ Commit(Settle([Heap EXCEPT !.job[j].timer = FALSE],
                     routesRev, j, "reject", "timeout"))
    /\ response' = NoResponse
    /\ UNCHANGED <<routesRev, segments, inputOk>>

\* videoProcessor.ts:255-259  the timer fires: SIGKILL is sent and the
\* promise rejected without waiting for the process to exit.
Timeout(j) ==
    /\ ServerStays
    /\ ClientStays
    /\ j \in 1..Len(combinations)
    /\ job[j].timer
    /\ Commit(Settle([Heap EXCEPT !.job[j].timer = FALSE,
                                  !.job[j].proc = IF @ = "running" THEN "killed" ELSE @],
                     routesRev, j, "reject", "timeout"))
    /\ response' = NoResponse
    /\ UNCHANGED <<routesRev, segments, inputOk>>

\* videoProcessor.ts:261-287  the 'close' event with its exit code (a
\* process ended by a signal closes with code null, which is not 0).
Close(j, code) ==
    /\ ServerStays
    /\ ClientStays
    /\ j \in 1..Len(combinations)
    /\ job[j].proc \in {"running", "killed", "failed"}
    /\ job[j].proc = "failed" => code = "nonzero"
    /\ Commit(Settle([Heap EXCEPT !.job[j].proc = "exited",
                                  !.job[j].timer = FALSE,
                                  !.job[j].exit = code],
                     routesRev, j, CloseOutcome(code, job[j].out), "close"))
    /\ response' = NoResponse
    /\ UNCHANGED <<routesRev, segments, inputOk>>

\* Mutant: the loop ends without clearing the flag.
DelayDone_FlagStays ==
    /\ ServerStays
    /\ ClientStays
    /\ workerPc = "delay"
    /\ IF Len(queue) > 0
       THEN Commit(LoopTurn(Heap, routesRev, inputOk))
       ELSE Commit([Heap EXCEPT !.workerPc = "idle", !.cur = 0])
    /\ response' = NoResponse
    /\ UNCHANGED <<routesRev, segments, inputOk>>

\* Mutant: the loop tested the queue before the delay; after the delay it
\* ends and clears the flag without looking at the queue again.
DelayDone_NoRetest ==
    /\ ServerStays
    /\ ClientStays
    /\ workerPc = "delay"
    /\ Commit([Heap EXCEPT !.processing = FALSE, !.workerPc = "idle", !.cur = 0])
    /\ response' = NoResponse
    /\ UNCHANGED <<routesRev, segments, inputOk>>

\* queue.ts:28, 21-25, 37-38  the 1-second timer fires: the loop takes the
\* next task, or ends and clears the flag.
DelayDone ==
    /\ ServerStays
    /\ ClientStays
    /\ workerPc = "delay"
    /\ IF Len(queue) > 0
       THEN Commit(LoopTurn(Heap, routesRev, inputOk))
       ELSE Commit([Heap EXCEPT !.processing = FALSE, !.workerPc = "idle", !.cur = 0])
    /\ response' = NoResponse
    /\ UNCHANGED <<routesRev, segments, inputOk>>

\* ---------------------------------------------------------- specification
Init ==
    /\ routesRev \in Revs
    /\ segments = <<>>
    /\ inputOk = {}
    /\ combinations = <<>>
    /\ queue = <<>>
    /\ processing = FALSE
    /\ workerPc = "idle"
    /\ cur = 0
    /\ job = <<>>
    /\ response = NoResponse
    /\ server = Listening
    /\ client = NoClient

\* The whole system.  Uploads are the well-formed ones here; GenSpec below
\* also draws the malformed and the failing ones, which change nothing.
Next ==
    \/ \E t \in Pools : Upload(t, TRUE, TRUE, TRUE)
    \/ \E s \in 1..(MaxHooks + MaxStories + MaxCtas) : RemoveInput(s)
    \/ Generate
    \/ ListCombinations
    \/ \E j \in 1..MaxCombinations : AccessDone(j)
    \/ \E j \in 1..MaxCombinations : Write(j)
    \/ \E j \in 1..MaxCombinations : ErrorEvent(j)
    \/ \E j \in 1..MaxCombinations : Timeout(j)
    \/ \E j \in 1..MaxCombinations, code \in {"zero", "nonzero"} : Close(j, code)
    \/ DelayDone

Spec == Init /\ [][Next]_vars

\* The queue and the compositor adapter alone, with more tasks: one segment
\* per pool is uploaded (the state after three uploads), and every
\* generation request adds one task.
QueueInit ==
    /\ routesRev \in Revs
    /\ segments = <<[id |-> 1, type |-> "hook"], [id |-> 2, type |-> "story"],
                    [id |-> 3, type |-> "cta"]>>
    /\ inputOk = {1, 2, 3}
    /\ combinations = <<>>
    /\ queue = <<>>
    /\ processing = FALSE
    /\ workerPc = "idle"
    /\ cur = 0
    /\ job = <<>>
    /\ response = NoResponse
    /\ server = Listening
    /\ client = NoClient

QueueNext ==
    \/ GenerateUpTo(QueueMaxJobs)
    \/ \E s \in 1..3 : RemoveInput(s)
    \/ \E j \in 1..QueueMaxJobs : AccessDone(j)
    \/ \E j \in 1..QueueMaxJobs : Write(j)
    \/ \E j \in 1..QueueMaxJobs : ErrorEvent(j)
    \/ \E j \in 1..QueueMaxJobs : Timeout(j)
    \/ \E j \in 1..QueueMaxJobs, code \in {"zero", "nonzero"} : Close(j, code)
    \/ DelayDone

QueueSpec == QueueInit /\ [][QueueNext]_vars

\* Scheduling: a timer that is armed fires (the 1-second delay of the
\* queue, the 5-minute timer of a job unless the close event clears it),
\* and the file-system calls of the input check complete.
QueueFairness ==
    /\ WF_vars(DelayDone)
    /\ \A j \in 1..FairMaxJobs : WF_vars(AccessDone(j))
    /\ \A j \in 1..FairMaxJobs : WF_vars(Timeout(j))

FairQueueNext ==
    \/ GenerateUpTo(FairMaxJobs)
    \/ \E s \in 1..3 : RemoveInput(s)
    \/ \E j \in 1..FairMaxJobs : AccessDone(j)
    \/ \E j \in 1..FairMaxJobs : Write(j)
    \/ \E j \in 1..FairMaxJobs : ErrorEvent(j)
    \/ \E j \in 1..FairMaxJobs : Timeout(j)
    \/ \E j \in 1..FairMaxJobs, code \in {"zero", "nonzero"} : Close(j, code)
    \/ DelayDone

FairQueueSpec == QueueInit /\ [][FairQueueNext]_vars /\ QueueFairness

\* videoProcessor.ts:257  SIGKILL can be neither caught nor ignored: the
\* operating system ends a subprocess it was sent to, and the close event
\* of that subprocess is delivered.
KillFairness ==
    \A j \in 1..FairMaxJobs :
        WF_vars(/\ j \in 1..Len(combinations)
                /\ job[j].proc = "killed"
                /\ \E code \in {"zero", "nonzero"} : Close(j, code))

KillFairQueueSpec == FairQueueSpec /\ KillFairness

\* Status polling: the queue and the compositor adapter as in FairQueueNext,
\* and a client that reads the list at any time.
PollNext ==
    \/ FairQueueNext
    \/ ListCombinations

PollSpec == QueueInit /\ [][PollNext]_vars

\* The segment store under every operation of the system: uploads (also the
\* malformed and the failing ones), generation, the tasks and their
\* subprocesses, and listing.
SegNext ==
    \/ \E t \in Pools, hasFile \in BOOLEAN, hasType \in BOOLEAN, thumbOk \in BOOLEAN :
          UploadUpTo(SegMaxPool, t, hasFile, hasType, thumbOk)
    \/ GenerateUpTo(SegMaxJobs)
    \/ ListCombinations
    \/ \E j \in 1..SegMaxJobs : AccessDone(j)
    \/ \E j \in 1..SegMaxJobs : Write(j)
    \/ \E j \in 1..SegMaxJobs : ErrorEvent(j)
    \/ \E j \in 1..SegMaxJobs : Timeout(j)
    \/ \E j \in 1..SegMaxJobs, code \in {"zero", "nonzero"} : Close(j, code)
    \/ DelayDone

SegSpec == Init /\ [][SegNext]_vars

\* index.ts:138-156  one turn of the loop of main up to the outcome of
\* await startServer(): resolved (break), rejected with EADDRINUSE (the 2 s
\* delay starts), rejected with anything else (process.exit(1)).
StartServer(outcome) ==
    /\ server.pc = "starting"
    /\ server.retries < MAX_RETRIES
    /\ server' = [server EXCEPT
                    !.attempts = @ + 1,
                    !.pc = CASE outcome = "ok" -> "listening"
                             [] outcome = "EADDRINUSE" -> "waiting"
                             [] OTHER -> "exited",
                    !.exit = IF outcome \in {"ok", "EADDRINUSE"} THEN @ ELSE <<1>>]
    /\ ClientStays
    /\ response' = NoResponse
    /\ UNCHANGED <<routesRev, segments, inputOk, combinations, queue,
                   processing, workerPc, cur, job>>

RetryDelayDone_OneMore ==
    /\ server.pc = "waiting"
    /\ LET r == server.retries + 1
       IN server' = [server EXCEPT
                       !.retries = r,
                       !.pc = IF r = MAX_RETRIES + 1 THEN "exited" ELSE "starting",
                       !.exit = IF r = MAX_RETRIES + 1 THEN <<1>> ELSE @]
    /\ ClientStays
    /\ response' = NoResponse
    /\ UNCHANGED <<routesRev, segments, inputOk, combinations, queue,
                   processing, workerPc, cur, job>>

\* index.ts:146-151, 138  the 2 s delay is over: retries++, process.exit(1)
\* when retries === MAX_RETRIES, else the loop tests retries < MAX_RETRIES
RetryDelayDone ==
    /\ server.pc = "waiting"
    /\ LET r == server.retries + 1
       IN server' = [server EXCEPT
                       !.retries = r,
                       !.pc = IF r = MAX_RETRIES THEN "exited"
                              ELSE IF r < MAX_RETRIES THEN "starting" ELSE "returned",
                       !.exit = IF r = MAX_RETRIES THEN <<1>> ELSE @]
    /\ ClientStays
    /\ response' = NoResponse
    /\ UNCHANGED <<routesRev, segments, inputOk, combinations, queue,
                   processing, workerPc, cur, job>>

\* routes.ts:49-57, videoProcessor.ts:297-313, index.ts:127-129  an upload
\* with file and type whose ffmpeg cannot be spawned: the subprocess emits
\* 'error', generateThumbnail listens to 'close' only, so the event is an
\* uncaught exception.  No 'close' follows, the promise of generateThumbnail
\* stays pending and the request is never answered (status 0: no response);
\* the uncaughtException handler starts cleanup().
ThumbnailSpawnError ==
    /\ server.pc = "listening"
    /\ server' = [server EXCEPT !.pc = "cleanup"]
    /\ ClientStays
    /\ response' = [route |-> "upload", status |-> 0, body |-> <<>>]
    /\ UNCHANGED <<routesRev, segments, inputOk, combinations, queue,
                   processing, workerPc, cur, job>>

\* index.ts:100-116, 129-130  cleanup() resolved (the server closed, or the
\* 3 s timer fired): process.exit(1)
CleanupDone ==
    /\ server.pc = "cleanup"
    /\ server' = [server EXCEPT !.pc = "exited", !.exit = <<1>>]
    /\ ClientStays
    /\ response' = NoResponse
    /\ UNCHANGED <<routesRev, segments, inputOk, combinations, queue,
                   processing, workerPc, cur, job>>

\* index.ts:94-98  the process as main begins
ServerInit ==
    /\ routesRev \in Revs
    /\ segments = <<>>
    /\ inputOk = {}
    /\ combinations = <<>>
    /\ queue = <<>>
    /\ processing = FALSE
    /\ workerPc = "idle"
    /\ cur = 0
    /\ job = <<>>
    /\ response = NoResponse
    /\ server = Starting
    /\ client = NoClient

\* The process from its start: the startup loop of main, then uploads with
\* every outcome of the thumbnail subprocess, generation and listing, until
\* an uncaught exception ends the process.
ServerNext ==
    \/ \E outcome \in {"ok", "EADDRINUSE", "other"} : StartServer(outcome)
    \/ RetryDelayDone
    \/ \E t \in Pools, hasFile \in BOOLEAN, hasType \in BOOLEAN, thumbOk \in BOOLEAN :
          UploadUpTo(SegMaxPool, t, hasFile, hasType, thumbOk)
    \/ ThumbnailSpawnError
    \/ CleanupDone
    \/ GenerateUpTo(SegMaxJobs)
    \/ ListCombinations

ServerSpec == ServerInit /\ [][ServerNext]_vars

\* part_004:90-97, routes.ts:154-156  the combinations query fetches: on
\* mount and after an invalidation at once, else when the refetch interval
\* fires; GET /api/combinations answers with the store, which becomes the
\* query's data.
ClientFetch ==
    /\ ServerStays
    /\ client.mounted
    /\ client.stale \/ RefetchInterval(client.data) > 0
    /\ response' = [route |-> "list", status |-> 200, body |-> combinations]
    /\ client' = [client EXCEPT !.data = combinations, !.stale = FALSE]
    /\ UNCHANGED <<routesRev, segments, inputOk, combinations, queue,
                   processing, workerPc, cur, job>>

\* The Home page open on the server of QueueInit.
ClientInit ==
    /\ routesRev \in Revs
    /\ segments = <<[id |-> 1, type |-> "hook"], [id |-> 2, type |-> "story"],
                    [id |-> 3, type |-> "cta"]>>
    /\ inputOk = {1, 2, 3}
    /\ combinations = <<>>
    /\ queue = <<>>
    /\ processing = FALSE
    /\ workerPc = "idle"
    /\ cur = 0
    /\ job = <<>>
    /\ response = NoResponse
    /\ server = Listening
    /\ client = Mounted

\* The page and the server: the page's generation requests and fetches, the
\* queue and the compositor adapter as in FairQueueNext.
ClientNext ==
    \/ FairQueueNext
    \/ ClientFetch

\* The queue drains (QueueFairness); a fetch that is due happens.
ClientSpec == ClientInit /\ [][ClientNext]_vars /\ QueueFairness /\ WF_vars(ClientFetch)

\* The generator alone, with larger pools: uploads and generation requests.
GenNext ==
    \/ \E t \in Pools, hasFile \in BOOLEAN, hasType \in BOOLEAN, thumbOk \in BOOLEAN :
          UploadUpTo(GenMaxPool, t, hasFile, hasType, thumbOk)
    \/ GenerateUpTo(GenMaxCombinations)

GenSpec == Init /\ [][GenNext]_vars

\* ================================================================ claims
Ids == 1..Len(combinations)

\* A task is executing from its invocation to the end of its then/catch.
Executing(j) == job[j].pc \in {"access", "spawned"}

\* C1: at most one task is between its start and its completion at any
\* time, whatever adds are made while a task awaits its subprocess or while
\* the worker is in its 1-second delay.
C1_AtMostOneExecuting ==
    Cardinality({j \in Ids : Executing(j)}) <= 1

\* A task awaits its subprocess and a second request (three segments give
\* one record per request) has added a task meanwhile.
C1_Witness ==
    /\ Len(segments) = 3
    /\ Len(combinations) = 2
    /\ job[1].pc = "spawned"
    /\ queue = <<2>>

\* C2: tasks start in the order of their add calls, and a task starts only
\* after every task added before it has completed.
C2_FifoOrder ==
    \A i, j \in Ids : (i < j /\ job[j].started > 0) => job[i].pc = "done"

\* Three requests added three tasks and the third has started.
C2_Witness ==
    /\ Len(combinations) = 3
    /\ job[3].pc = "access"

\* C3: a failing task never stalls the queue: every record, whenever it was
\* created, eventually leaves status processing for ready or error.
C3_NoStall ==
    \A j \in 1..FairMaxJobs :
        (j <= Len(combinations) /\ combinations[j].status = "processing")
        ~> (j <= Len(combinations) /\ combinations[j].status \in {"ready", "error"})

\* The first task failed by its timeout, and the task behind it was
\* executed to its end and the queue drained.
C3_Witness ==
    /\ Len(combinations) = 2
    /\ job[1].cause = "timeout"
    /\ job[2].pc = "done"
    /\ ~processing

\* C4: a status changes only from processing to ready or to error, and the
\* status of a record is assigned at most once, whatever the order of the
\* close, error and timeout events of its subprocess.
C4_StatusOneWay ==
    [][\A j \in Ids :
          /\ combinations'[j].status # combinations[j].status
                => /\ combinations[j].status = "processing"
                   /\ combinations'[j].status \in {"ready", "error"}
          /\ job'[j].writes <= 1]_vars

\* A record is in error by its timeout and the close event of the killed
\* subprocess has arrived afterwards.
C4_Witness ==
    \E j \in Ids :
        /\ combinations[j].status = "error"
        /\ job[j].cause = "timeout"
        /\ job[j].proc = "exited"

\* The ids of the segments of pool t, in upload order.
PoolIds(segs, t) ==
    LET idx == {i \in 1..Len(segs) : segs[i].type = t}
        RECURSIVE Up(_, _)
        Up(from, acc) ==
            IF \A i \in idx : i < from THEN acc
            ELSE LET m == CHOOSE i \in idx : i >= from /\ \A k \in idx : k >= from => i <= k
                 IN Up(m + 1, Append(acc, segs[m].id))
    IN Up(1, <<>>)

\* The k-th triple of the product in nested order, hooks outermost.
Triple(segs, k) ==
    LET H == PoolIds(segs, "hook")
        St == PoolIds(segs, "story")
        Ct == PoolIds(segs, "cta")
    IN [hook |-> H[((k - 1) \div (Len(St) * Len(Ct))) + 1],
        story |-> St[(((k - 1) \div Len(Ct)) % Len(St)) + 1],
        cta |-> Ct[((k - 1) % Len(Ct)) + 1]]

PoolProduct(segs) ==
    Len(PoolIds(segs, "hook")) * Len(PoolIds(segs, "story")) * Len(PoolIds(segs, "cta"))

AnyPoolEmpty == \E t \in Pools : \A i \in 1..Len(segments) : segments[i].type # t

\* C5: with no pool empty, a generation request appends exactly h*s*c
\* records, the k-th being the k-th triple in nested order (hooks outermost,
\* ctas innermost, each pool in upload order), no triple twice, and the tasks
\* are added in that order.
C5_Product ==
    [][(~AnyPoolEmpty /\ response'.route = "generate")
        => LET n == Len(combinations)
               k == PoolProduct(segments)
               new == [i \in 1..k |-> n + i]
           IN /\ response'.status = 200
              /\ Len(combinations') = n + k
              /\ \A i \in 1..k :
                    /\ combinations'[n + i].hook = Triple(segments, i).hook
                    /\ combinations'[n + i].story = Triple(segments, i).story
                    /\ combinations'[n + i].cta = Triple(segments, i).cta
              /\ Cardinality({<<combinations'[n + i].hook, combinations'[n + i].story,
                                combinations'[n + i].cta>> : i \in 1..k}) = k
              /\ IF processing THEN queue' = queue \o new
                 ELSE <<cur'>> \o queue' = new]_vars

\* A request over two hooks, two stories and two ctas has been answered.
C5_Witness ==
    /\ response.route = "generate"
    /\ response.status = 200
    /\ Len(PoolIds(segments, "hook")) = 2
    /\ Len(PoolIds(segments, "story")) = 2
    /\ Len(PoolIds(segments, "cta")) = 2
    /\ Len(combinations) = 8

\* C6: a generation request made while a pool is empty is answered with the
\* missing-inputs error (400) and changes neither store, nor the queue, nor
\* the worker.
C6_Rejected ==
    [][(AnyPoolEmpty /\ response'.route = "generate")
        => /\ response'.status = 400
           /\ response'.body = "Missing required segments"
           /\ UNCHANGED <<segments, inputOk, combinations, queue, processing,
                          workerPc, cur, job>>]_vars

\* A request was rejected with two pools filled and the third empty.
C6_Witness ==
    /\ response.route = "generate"
    /\ response.status = 400
    /\ Len(segments) = 4

\* C7: a record is ready only if the subprocess of its task closed with
\* code 0 and the output file is there with a non-zero size; a task whose
\* subprocess closed with another code, or with code 0 and a missing or
\* empty output, does not set ready.
C7_ReadyOnlyOnSuccess ==
    \A j \in Ids :
        combinations[j].status = "ready"
            => job[j].exit = "zero" /\ job[j].out = "nonempty"

\* A task ended on the close event of a subprocess that exited with a
\* non-zero code.
C7_Witness ==
    \E j \in Ids :
        /\ job[j].pc = "done"
        /\ job[j].cause = "close"
        /\ job[j].exit = "nonzero"

\* C8 (as claimed): a task whose compositor works (it closes with code 0,
\* before the timeout, with a non-empty output file) sets its record ready.
C8_WorkingCompositorReady ==
    [][\A j \in Ids :
          (/\ job[j].pc = "spawned"
           /\ job[j].out = "nonempty"
           /\ job'[j].pc = "done"
           /\ job'[j].cause = "close"
           /\ job'[j].exit = "zero")
          => combinations'[j].status = "ready"]_vars

\* Task j ends in this step with a failure.
FailsNow(j) ==
    /\ j \in 1..Len(combinations')
    /\ j \in Ids => job[j].pc # "done"
    /\ job'[j].pc = "done"
    /\ \/ job'[j].cause \in {"input", "error", "timeout"}
       \/ job'[j].exit = "nonzero"
       \/ j \in Ids /\ job[j].out # "nonempty"

\* C9: every failure of a task (input not found, spawn error, non-zero exit,
\* timeout, empty output) sets the status of the task's own record to error
\* and of no other record, and the queue loop goes on as after any task:
\* the flag stays set and the loop is at its delay.
C9_FailureContained ==
    [][\A j \in 1..QueueMaxJobs :
          FailsNow(j)
          => /\ combinations'[j].status = "error"
             /\ \A i \in Ids \ {j} : combinations'[i] = combinations[i]
             /\ processing' /\ workerPc' = "delay" /\ cur' = j]_vars

\* A task failed by the error event of its subprocess while another record
\* was still processing.
C9_Witness ==
    \E j \in Ids :
        /\ job[j].cause = "error"
        /\ combinations[j].status = "error"
        /\ \E i \in Ids : i > j /\ combinations[i].status = "processing" /\ job[i].pc = "queued"

\* C10 (as claimed): at most one compositor subprocess is alive at any time.
Alive(j) == job[j].proc \in {"running", "killed"}

C10_OneSubprocessAlive ==
    Cardinality({j \in Ids : Alive(j)}) <= 1

\* The timer of task j fires in this step (the close event, which clears
\* the timer, has not come).
TimerFires(j) ==
    /\ job[j].timer
    /\ ~job'[j].timer
    /\ job'[j].exit = "none"

\* C11: when the 5-minute timer of a task fires while its subprocess has not
\* closed, the subprocess is sent SIGKILL, the task ends as failed by the
\* timeout with its record in status error, and the killed subprocess
\* eventually is no longer alive.
C11_TimeoutKills ==
    /\ [][\A j \in Ids :
            (TimerFires(j) /\ job[j].proc = "running")
            => /\ job'[j].proc = "killed"
               /\ job'[j].pc = "done"
               /\ job'[j].cause = "timeout"
               /\ combinations'[j].status = "error"]_vars
    /\ \A j \in 1..FairMaxJobs :
          (j <= Len(combinations) /\ job[j].proc = "killed")
          ~> (j <= Len(combinations) /\ ~Alive(j))

\* The timer of the first task has fired: its subprocess is killed and not
\* yet gone, and the worker has started the next task meanwhile.
C11_Witness ==
    /\ Len(combinations) = 2
    /\ job[1].cause = "timeout"
    /\ job[1].proc = "killed"
    /\ combinations[1].status = "error"
    /\ job[2].started = 1

\* The event of task j's subprocess that this step delivers.
FirstEvent(j) ==
    IF job'[j].exit # job[j].exit THEN "close"
    ELSE IF job'[j].proc = "failed" /\ job[j].proc # "failed" THEN "error"
    ELSE IF TimerFires(j) THEN "timeout"
    ELSE "none"

\* C12: the first of the close event, the error event and the timer expiry
\* of a task decides its outcome; an event of the same task that comes later
\* changes neither the record nor what ended the task, and does not complete
\* the task toward the queue a second time (the worker loop is not moved).
C12_FirstEventDecides ==
    [][\A j \in Ids :
          /\ (job[j].pc = "spawned" /\ job'[j].pc = "done")
                => /\ job'[j].cause = FirstEvent(j)
                   /\ job'[j].writes = 1
                   /\ workerPc = "task" /\ cur = j /\ workerPc' = "delay"
          /\ (job[j].pc = "done" /\ job'[j] # job[j])
                => /\ combinations' = combinations
                   /\ job'[j].cause = job[j].cause
                   /\ job'[j].writes = job[j].writes
                   /\ UNCHANGED <<queue, processing, workerPc, cur>>]_vars

\* A task ended by the error event of its subprocess and the close event
\* arrived afterwards, when the worker had gone on to a later task.
C12_Witness ==
    \E j \in Ids :
        /\ job[j].cause = "error"
        /\ job[j].proc = "exited"
        /\ combinations[j].status = "error"
        /\ cur > j

\* C13 (as claimed): a task that has ended with its record in status error
\* has left no file at the record's output path.
C13_NoArtifact ==
    \A j \in Ids :
        (job[j].pc = "done" /\ combinations[j].status = "error")
            => job[j].out = "missing"

\* The inputs of record j, as the store holds it after the step / now.
InputsAfter(j) == {combinations'[j].hook, combinations'[j].story, combinations'[j].cta}
Inputs(j) == {combinations[j].hook, combinations[j].story, combinations[j].cta}

\* Task j is invoked in this step (possibly in the step that created it).
StartsNow(j) ==
    /\ job'[j].started = 1
    /\ j \in Ids => job[j].started = 0

\* C14: a task that starts while one of its input files is missing or
\* unreadable fails without spawning the compositor: the step that starts
\* it spawns nothing, the input check ends it with its record in error, and
\* no subprocess is ever spawned for it.
C14_InputNotFound ==
    /\ [][\A j \in 1..Len(combinations') :
            /\ (StartsNow(j) /\ ~(InputsAfter(j) \subseteq inputOk))
                  => /\ job'[j].proc = "none"
                     /\ \/ job'[j].pc = "access"
                        \/ /\ job'[j].pc = "done"
                           /\ job'[j].cause = "input"
                           /\ combinations'[j].status = "error"
            /\ (j \in Ids /\ job[j].pc = "access" /\ ~(Inputs(j) \subseteq inputOk)
                          /\ job'[j] # job[j])
                  => /\ job'[j].proc = "none"
                     /\ job'[j].pc = "done"
                     /\ job'[j].cause = "input"
                     /\ combinations'[j].status = "error"
            /\ (j \in Ids /\ job[j].cause = "input")
                  => job'[j].proc = "none" /\ combinations'[j].status = "error"]_vars
    /\ \A j \in 1..FairMaxJobs :
          (j <= Len(combinations) /\ job[j].pc = "access" /\ ~(Inputs(j) \subseteq inputOk))
          ~> (j <= Len(combinations) /\ combinations[j].status = "error"
                /\ job[j].cause = "input" /\ job[j].proc = "none")

\* The file of a segment was removed while the first task ran; the second
\* task started with it missing and ended in error, nothing spawned.
C14_Witness ==
    /\ Len(combinations) = 2
    /\ job[1].proc = "exited"
    /\ job[2].started = 1
    /\ job[2].cause = "input"
    /\ job[2].proc = "none"
    /\ combinations[2].status = "error"

\* How many times task j is in the queue.
Queued(j) == Cardinality({k \in 1..Len(queue) : queue[k] = j})

\* C15: every record has exactly one task, which is either waiting in the
\* queue (once) or was invoked (once); a task that ended, failed or not, is
\* not in the queue again and is not invoked again, and a subprocess is
\* spawned at most once per record.
C15_OneJobOnce ==
    /\ [](/\ Len(job) = Len(combinations)
          /\ \A k \in 1..Len(queue) : queue[k] \in Ids
          /\ \A j \in Ids :
                /\ Queued(j) + job[j].started = 1
                /\ job[j].pc = "queued" <=> Queued(j) = 1
                /\ job[j].proc # "none" => job[j].started = 1)
    /\ [][\A j \in Ids :
            /\ job[j].pc = "done" => job'[j].pc = "done" /\ job'[j].started = job[j].started
            /\ job[j].proc # "none" => job'[j].proc \notin {"none"}
            /\ job[j].proc \in {"killed", "failed", "exited"} => job'[j].proc # "running"]_vars

\* Three records; the first task failed and the worker went on: the second
\* runs its subprocess, the third waits, the first is not queued again.
C15_Witness ==
    /\ Len(combinations) = 3
    /\ combinations[1].status = "error"
    /\ job[2].proc = "running"
    /\ queue = <<3>>

\* The tasks added so far that the worker has not taken, in add order.
Waiting == SelectSeq([i \in Ids |-> i], LAMBDA j : job[j].started = 0)

\* C16: whatever the interleaving of generation requests with the worker
\* loop, no task is lost or duplicated (the queue is exactly the tasks not
\* yet taken, in add order; a request made while the worker is busy only
\* appends), every task added is eventually taken and run to its end exactly
\* once, and the task being run is the single one the loop awaits.
C16_NoLostNoDuplicate ==
    /\ [](/\ queue = Waiting
          /\ \A j \in Ids : job[j].started <= 1
          /\ \A j \in Ids : Executing(j) => processing /\ workerPc = "task" /\ cur = j)
    /\ [][(response'.route = "generate" /\ response'.status = 200 /\ processing)
            => /\ SubSeq(queue', 1, Len(queue)) = queue
               /\ Len(queue') = Len(queue) + Len(combinations') - Len(combinations)
               /\ UNCHANGED <<workerPc, cur, processing>>]_vars
    /\ \A j \in 1..FairMaxJobs :
          (j <= Len(combinations) /\ job[j].started = 0)
          ~> (j <= Len(combinations) /\ job[j].started = 1 /\ job[j].pc = "done")

\* A second request added its task while the first task was awaiting its
\* subprocess; the first has ended and the second is now being run.
C16_Witness ==
    /\ Len(combinations) = 2
    /\ job[1].pc = "done"
    /\ job[1].proc = "exited"
    /\ job[2].pc = "spawned"
    /\ queue = <<>>
    /\ cur = 2

\* C17 (as claimed): a generation request that succeeds answers with exactly
\* the records it created, not with records of earlier requests.
C17_ReturnsCreated ==
    [][(response'.route = "generate" /\ response'.status = 200)
        => response'.body = SubSeq(combinations', Len(combinations) + 1, Len(combinations'))]_vars

\* C18 (as claimed): when a generation request is answered, every record it
\* created has status processing, also when the worker was idle and the
\* first task was started inside the first add call.
C18_CreatedAreProcessing ==
    [][(response'.route = "generate" /\ response'.status = 200)
        => \A j \in (Len(combinations) + 1)..Len(combinations') :
              combinations'[j].status = "processing"]_vars

\* What identifies a record: everything but its status and output locator.
Identity(c) == <<c.id, c.hook, c.story, c.cta>>

\* C19: the store only grows.  No step removes, replaces or reorders a
\* record; a generation request that succeeds leaves every existing record
\* as it was, at its place, and appends exactly h*s*c records after them
\* (so a second request over the same segments doubles the count).
C19_StoreGrows ==
    [][/\ Len(combinations') >= Len(combinations)
       /\ \A i \in Ids : Identity(combinations'[i]) = Identity(combinations[i])
       /\ (response'.route = "generate" /\ response'.status = 200)
            => /\ Len(combinations') = Len(combinations) + PoolProduct(segments)
               /\ \A i \in Ids : combinations'[i] = combinations[i]
       /\ response'.route # "generate" => Len(combinations') = Len(combinations)]_vars

\* Two requests over the same two hooks, two stories and one cta: the four
\* triples, then the same four triples again.
C19_Witness ==
    /\ response.route = "generate"
    /\ Len(PoolIds(segments, "hook")) = 2
    /\ Len(PoolIds(segments, "story")) = 2
    /\ Len(PoolIds(segments, "cta")) = 1
    /\ Len(combinations) = 8
    /\ \A i \in 1..4 :
          /\ <<combinations[i].hook, combinations[i].story, combinations[i].cta>>
               = <<combinations[i + 4].hook, combinations[i + 4].story, combinations[i + 4].cta>>
          /\ \A k \in 1..4 :
                k # i => <<combinations[i].hook, combinations[i].story>>
                           # <<combinations[k].hook, combinations[k].story>>

\* C20 (as claimed): a record carries an output locator only if its status
\* is ready; records in status processing or error have none.
C20_UrlOnlyWhenReady ==
    \A j \in Ids :
        combinations[j].downloadUrl # "none" => combinations[j].status = "ready"

\* C21: add appends the task at the tail and returns without waiting for a
\* task to end.  A request answered while a worker loop is draining only
\* appends its tasks and starts nothing; a request answered while none is
\* draining starts exactly one loop, in its first add: that loop takes the
\* first task, the other tasks of the request wait behind it in add order.
\* The flag is set exactly while a loop exists, so there is at most one.
C21_AddStartsAtMostOneWorker ==
    /\ [](processing <=> workerPc # "idle")
    /\ [][(response'.route = "generate" /\ response'.status = 200)
            => LET n == Len(combinations)
                   m == Len(combinations')
                   new == [i \in 1..(m - n) |-> n + i]
               IN IF processing
                  THEN /\ queue' = queue \o new
                       /\ UNCHANGED <<processing, workerPc, cur>>
                       /\ \A j \in (n + 1)..m : job'[j].started = 0
                  ELSE /\ queue = <<>>
                       /\ workerPc = "idle"
                       /\ processing'
                       /\ cur' = n + 1
                       /\ queue' = Tail(new)
                       /\ job'[n + 1].started = 1
                       /\ workerPc' = IF job'[n + 1].pc = "done" THEN "delay" ELSE "task"
                       /\ \A j \in (n + 2)..m :
                             job'[j].started = 0 /\ job'[j].pc = "queued"]_vars

\* The first request, over two hooks, two stories and one cta, has been
\* answered: its first add started the loop on task 1, the three other adds
\* of the same request only appended.
C21_Witness ==
    /\ response.route = "generate"
    /\ response.status = 200
    /\ Len(combinations) = 4
    /\ cur = 1
    /\ job[1].pc = "access"
    /\ queue = <<2, 3, 4>>

\* C22: the worker loop ends exactly when it finds the queue empty after a
\* task, and then the flag is cleared; a task added after that starts a new
\* loop at once; and whenever a task is added -- to an idle queue, while a
\* task runs, during the delay -- it is eventually run to its end.
C22_WorkerLifecycle ==
    /\ [][/\ (processing /\ ~processing')
              => queue = <<>> /\ workerPc = "delay" /\ workerPc' = "idle"
          /\ (workerPc = "delay" /\ queue = <<>> /\ workerPc' # "delay")
              => ~processing' /\ workerPc' = "idle" /\ queue' = <<>>
          /\ (~processing /\ Len(combinations') > Len(combinations))
              => /\ processing'
                 /\ cur' = Len(combinations) + 1
                 /\ job'[Len(combinations) + 1].started = 1]_vars
    /\ (workerPc = "delay" /\ queue = <<>>) ~> (~processing \/ queue # <<>>)
    /\ \A j \in 1..FairMaxJobs :
          (j <= Len(combinations) /\ job[j].pc # "done")
          ~> (j <= Len(combinations) /\ job[j].pc = "done" /\ job[j].started = 1)

\* The loop that ran the first task has ended; the request just answered
\* found the queue idle and its add started a new loop on the second task.
C22_Witness ==
    /\ response.route = "generate"
    /\ Len(combinations) = 2
    /\ job[1].pc = "done"
    /\ job[2].started = 1
    /\ cur = 2
    /\ processing

\* C23 (as claimed): within one task the steps come in the order input
\* check, spawn, exit-code check, output check, cleanup: a subprocess is
\* spawned only by the step that ends a passed input check, the output is
\* checked only once the subprocess has closed, and the status is set only
\* when these steps are over, i.e. when no subprocess of the task is alive.
C23_StepsInOrder ==
    [][\A j \in Ids :
          /\ (job[j].proc = "none" /\ job'[j].proc # "none")
                => /\ job[j].pc = "access"
                   /\ Inputs(j) \subseteq inputOk
                   /\ job'[j].proc = "running"
          /\ (job'[j].cause = "close") => job'[j].proc = "exited" /\ job'[j].exit # "none"
          /\ (combinations'[j].status # "processing") => ~Alive(j)']_vars

\* C24: listing is a pure read.  It changes no record, nothing of the queue
\* and nothing of the worker, and it answers with all the records, in
\* creation order, each with the status it holds at that moment -- also
\* while a task is being run.
C24_ListIsPureRead ==
    [][response'.route = "list"
        => /\ UNCHANGED <<routesRev, segments, inputOk, combinations, queue,
                          processing, workerPc, cur, job>>
           /\ response'.status = 200
           /\ Len(response'.body) = Len(combinations)
           /\ \A i \in Ids :
                 /\ response'.body[i].id = i
                 /\ response'.body[i] = combinations[i]]_vars

\* The list was read while the second task awaited its subprocess: the
\* answer holds the first record in error and the second in processing.
C24_Witness ==
    /\ response.route = "list"
    /\ Len(response.body) = 2
    /\ response.body[1].status = "error"
    /\ response.body[2].status = "processing"
    /\ job[2].pc = "spawned"

\* Task i ends in this step.
CompletesNow(i) ==
    /\ job'[i].pc = "done"
    /\ i \in Ids => job[i].pc # "done"

\* C25: after its creation a record is written only by the completion of
\* its own task.  A step changes at most one existing record, the one whose
\* task ends in that step, and only its status and output locator; a record
\* created in the step is as created unless its own task ended in the step.
C25_OnlyOwnTaskWrites ==
    [][\A i \in 1..Len(combinations') :
          /\ (i \in Ids /\ combinations'[i] # combinations[i])
                => /\ CompletesNow(i)
                   /\ Identity(combinations'[i]) = Identity(combinations[i])
                   /\ \A k \in Ids \ {i} : combinations'[k] = combinations[k]
          /\ (i \notin Ids /\ combinations'[i].status # "processing")
                => CompletesNow(i)
          /\ CompletesNow(i)
                => \A k \in Ids \ {i} : combinations'[k] = combinations[k]]_vars

\* The second task has ended on the close event of its subprocess, after
\* the first ended by its timeout, while the third record is processing.
C25_Witness ==
    /\ Len(combinations) = 3
    /\ job[1].cause = "timeout"
    /\ job[2].cause = "close"
    /\ combinations[2].status = "error"
    /\ combinations[3].status = "processing"

\* The identities of the segments of pool t in a segment store.
IdsOfPool(segs, t) == {segs[i].id : i \in {k \in 1..Len(segs) : segs[k].type = t}}

\* C26: every record references one segment of pool hook, one of pool
\* story and one of pool cta; each reference of a record created by a
\* request is the identity of a segment that was in the segment store, in
\* that pool, when the request ran, and stays resolvable afterwards.
C26_ReferencesResolve ==
    /\ [](\A j \in Ids :
            /\ combinations[j].hook \in IdsOfPool(segments, "hook")
            /\ combinations[j].story \in IdsOfPool(segments, "story")
            /\ combinations[j].cta \in IdsOfPool(segments, "cta"))
    /\ [][\A j \in (Len(combinations) + 1)..Len(combinations') :
            /\ combinations'[j].hook \in IdsOfPool(segments, "hook")
            /\ combinations'[j].story \in IdsOfPool(segments, "story")
            /\ combinations'[j].cta \in IdsOfPool(segments, "cta")]_vars

\* A request over one hook, one story and two ctas has been answered: two
\* records that differ in their cta.
C26_Witness ==
    /\ response.route = "generate"
    /\ response.status = 200
    /\ Cardinality(IdsOfPool(segments, "cta")) = 2
    /\ Len(segments) = 4
    /\ Len(combinations) = 2
    /\ combinations[1].cta # combinations[2].cta

\* C27: the segment store is append-only.  An upload that succeeds appends
\* one segment, with a new identity, after the existing ones; an upload that
\* is rejected or fails, a generation request, a step of a task or of its
\* subprocess, and a listing leave the store as it is.
C27_SegmentsAppendOnly ==
    [][IF response'.route = "upload" /\ response'.status = 200
       THEN /\ segments' = Append(segments, response'.body)
            /\ \A i \in 1..Len(segments) : segments[i].id # response'.body.id
       ELSE segments' = segments]_vars

\* Three uploads, a generation, the task run to its end and a listing: the
\* store holds the three segments in upload order.
C27_Witness ==
    /\ response.route = "list"
    /\ Len(segments) = 3
    /\ \A i \in 1..3 : segments[i].id = i
    /\ Len(combinations) = 1
    /\ job[1].pc = "done"
    /\ job[1].proc = "exited"

\* routes.ts:101 / part_005:128  the output path of a record:
\* public/combinations/<id>.mp4, a function of the identity alone.
OutputPath(c) == <<"public", "combinations", c.id>>

\* C28: a record that is ready has its output file, non-empty, at the path
\* derived from its identity; two records never have the same output path;
\* and the file of a record is created, filled or removed only by steps of
\* that record's own task and subprocess.
C28_OwnArtifact ==
    /\ [](/\ \A i, j \in Ids :
               i # j => OutputPath(combinations[i]) # OutputPath(combinations[j])
          /\ \A j \in Ids :
               combinations[j].status = "ready" => job[j].out = "nonempty")
    /\ [][\A j \in Ids :
            job'[j].out # job[j].out
            => \/ job[j].proc = "running" /\ job'[j].pc = job[j].pc
               \/ CompletesNow(j)]_vars

\* The first task failed and its file was left behind; the subprocess of
\* the second task has created its own file, and the first file is as it was.
C28_Witness ==
    /\ Len(combinations) = 2
    /\ job[1].pc = "done"
    /\ job[1].out = "nonempty"
    /\ job[2].proc = "running"
    /\ job[2].out = "empty"

Terminal(j) == combinations[j].status \in {"ready", "error"}

\* C29: the records in a terminal status form a prefix of the store: when
\* a record is ready or in error, so is every record created before it,
\* except at most one, the record whose task is being run.
C29_TerminalPrefix ==
    \A j \in Ids :
        Terminal(j)
        => /\ \A i \in 1..(j - 1) : Terminal(i) \/ Executing(i)
           /\ Cardinality({i \in 1..(j - 1) : ~Terminal(i)}) <= 1

\* Three records from three requests: the first two tasks have ended, the
\* third task waits during the delay of the worker loop.
C29_Witness ==
    /\ Len(combinations) = 3
    /\ Terminal(1)
    /\ Terminal(2)
    /\ ~Terminal(3)
    /\ workerPc = "delay"
    /\ queue = <<3>>

\* C30: no task is stranded.  Between two turns of the event loop, a queue
\* that holds a task has its flag set and a worker loop that is at a task or
\* at its delay; a queue whose flag is clear is empty and has no loop.
C30_NoStrandedJob ==
    /\ Len(queue) > 0 => processing /\ workerPc \in {"task", "delay"}
    /\ ~processing => queue = <<>> /\ workerPc = "idle" /\ cur = 0

\* Two tasks were added while the first was run; the first has ended and
\* the loop is at its delay with both waiting.
C30_Witness ==
    /\ Len(queue) = 2
    /\ processing
    /\ workerPc = "delay"
    /\ job[1].pc = "done"

\* C31: a generation request runs in one turn.  No step changes both the
\* segment store and the combination store; the step that creates records
\* creates those of one request only: one contiguous block at the end of
\* the store, the whole product of the pools as they were when the request
\* started, with its tasks as one contiguous block at the tail of the
\* queue; an upload that completes later adds nothing to it.
C31_RequestIsOneTurn ==
    [][/\ segments' # segments
            => combinations' = combinations /\ queue' = queue
       /\ Len(combinations') # Len(combinations)
            => /\ segments' = segments
               /\ response'.route = "generate"
               /\ LET n == Len(combinations)
                      k == PoolProduct(segments)
                      q == IF processing THEN queue' ELSE <<cur'>> \o queue'
                  IN /\ Len(combinations') = n + k
                     /\ \A i \in 1..k :
                           /\ combinations'[n + i].id = n + i
                           /\ combinations'[n + i].hook = Triple(segments, i).hook
                           /\ combinations'[n + i].story = Triple(segments, i).story
                           /\ combinations'[n + i].cta = Triple(segments, i).cta
                     /\ Len(q) >= k
                     /\ SubSeq(q, Len(q) - k + 1, Len(q)) = [i \in 1..k |-> n + i]]_vars

\* A request over one hook, one story and one cta, then the upload of a
\* second story, then a second request: record 1 from the first request,
\* records 2 and 3 from the second, their tasks behind each other.
C31_Witness ==
    /\ response.route = "generate"
    /\ Len(segments) = 4
    /\ Len(combinations) = 3
    /\ combinations[1].story = combinations[2].story
    /\ combinations[2].story # combinations[3].story
    /\ queue = <<2, 3>>

\* C32: the input files a task passes to the compositor are the file of the
\* hook segment, the file of the story segment and the file of the cta
\* segment that its record references, in that order, whatever was uploaded
\* or generated between the add of the task and its run.
C32_InputsAreOwnSegments ==
    \A j \in Ids :
        job[j].inputs # <<>>
        => /\ Len(job[j].inputs) = 3
           /\ \A s \in 1..Len(segments) :
                 /\ segments[s].id = combinations[j].hook
                       => job[j].inputs[1] = <<"uploads", segments[s].id>>
                 /\ segments[s].id = combinations[j].story
                       => job[j].inputs[2] = <<"uploads", segments[s].id>>
                 /\ segments[s].id = combinations[j].cta
                       => job[j].inputs[3] = <<"uploads", segments[s].id>>

\* Two requests over one hook, one story and one cta; while the second task
\* waited a second story was uploaded; the second task has then run with the
\* files of its own three segments.
C32_Witness ==
    /\ Len(combinations) = 2
    /\ Len(segments) = 4
    /\ combinations[2].story # segments[4].id
    /\ segments[4].type = "story"
    /\ job[2].proc = "running"
    /\ job[2].inputs = <<<<"uploads", combinations[2].hook>>,
                         <<"uploads", combinations[2].story>>,
                         <<"uploads", combinations[2].cta>>>>

\* C33: an upload registers a segment only after its thumbnail was generated:
\* every upload that ends without a new segment (file or type missing, or
\* thumbnail generation failed) is answered with an error, 400 or 500, and
\* leaves the segment store unchanged; an upload answered with 200 appended
\* exactly the segment it returns.
C33_SegmentOnlyAfterThumbnail ==
    [][response'.route = "upload" =>
          \/ /\ response'.status = 200
             /\ segments' = Append(segments, response'.body)
          \/ /\ response'.status \in {400, 500}
             /\ segments' = segments]_vars

\* C35: startServer is called at most MAX_RETRIES times; a rejection with
\* EADDRINUSE is followed by the delay and then by a retry, except the third,
\* which is followed by exit code 1; any other rejection exits with code 1 at
\* once; a resolved start leaves the loop (no further attempt, no exit by main).
C35_StartupRetries ==
    /\ [](server.attempts <= MAX_RETRIES)
    /\ [](server.pc = "waiting" => server.retries = server.attempts - 1)
    /\ [][/\ (server.pc = "waiting" /\ server' # server) =>
                /\ server'.retries = server.retries + 1
                /\ IF server.attempts < MAX_RETRIES
                   THEN server'.pc = "starting" /\ server'.exit = <<>>
                   ELSE server'.pc = "exited" /\ server'.exit = <<1>>
          /\ (server.pc = "starting" /\ server' # server) =>
                /\ server'.attempts = server.attempts + 1
                /\ server'.retries = server.retries
                /\ \/ server'.pc = "listening" /\ server'.exit = <<>>
                   \/ server'.pc = "waiting" /\ server'.exit = <<>>
                   \/ server'.pc = "exited" /\ server'.exit = <<1>>
          /\ server.pc = "listening" =>
                /\ server'.attempts = server.attempts
                /\ server'.retries = server.retries
                /\ server'.pc \notin {"starting", "waiting", "returned"}]_vars
    /\ [](server.pc # "returned")

\* the third EADDRINUSE in a row ended the process with code 1
C35_Witness ==
    /\ server.pc = "exited"
    /\ server.attempts = MAX_RETRIES
    /\ server.retries = MAX_RETRIES
    /\ server.exit = <<1>>

====
